---- MODULE Spec2Model ----
(***************************************************************************)
(* SystemGenerator and DummySystemGenerator of                             *)
(* openmmforcefields/generators/system_generators.py as a state machine.   *)
(* The Engine (simtk.openmm.app.ForceField), the template generator        *)
(* classes and the user hook are collaborators: what they return is an     *)
(* input of the action that calls them.                                    *)
(***************************************************************************)
EXTENDS Integers, Sequences, FiniteSets, TLC

VARIABLES
  pc,       \* "new" before __init__, "ready" after it, "failed" if it raised
  self,     \* the attributes of the generator
  op,       \* the operation called last and its arguments
  result,   \* what it returned, None if it raised or returns nothing
  returns,  \* what the create_system calls returned, oldest first
  raised,   \* the exception the last operation raised, or NoException
  log,      \* the calls the last operation made on its collaborators
  assigns,  \* attribute assignments made so far
  dummy     \* what DummySystemGenerator.create_system returned last

vars == <<pc, self, op, result, returns, raised, log, assigns, dummy>>

(* ------------------------------ bounds --------------------------------- *)
\* number of classes SmallMoleculeTemplateGenerator.__subclasses__() returns
NumClasses == 2
\* stands for np.iinfo(np.int32).max: seeds are drawn from 0 .. MAXINT-1
MAXINT == 2
\* create_system calls whose returned systems are kept
MaxCalls == 2
\* attribute assignments made on one generator
MaxAssign == 2
\* atoms of the topologies handed to DummySystemGenerator
MaxAtoms == 4

(* --------------------------- Python's None ----------------------------- *)
\* an optional value is a sequence of length at most one
None == <<>>
Some(x) == <<x>>
IsNone(o) == o = <<>>
Val(o) == o[1]

NoException == [type |-> "none", msg |-> <<>>]

(* --------------------- template generator classes ---------------------- *)
ClassNames ==
  <<"GAFFTemplateGenerator", "SMIRNOFFTemplateGenerator",
    "EspalomaTemplateGenerator", "OtherTemplateGenerator">>
ClassForceFields ==
  <<{"gaff-2.11", "gaff-1.81"}, {"openff-1.0.0", "smirnoff99Frosst-1.1.0"},
    {"espaloma-0.2.2"}, {}>>

\* SmallMoleculeTemplateGenerator.__subclasses__(): the classes in order
Subclasses ==
  [c \in 1..NumClasses |->
     [name |-> ClassNames[c], INSTALLED_FORCEFIELDS |-> ClassForceFields[c]]]

\* identifiers a caller asks for
ForceFieldIds == {"openff-1.0.0", "gaff-2.11"}
\* molecules arguments: None or a list of molecules
MoleculeArgs == {None, Some("ethanol")}

(* ------------------------------ systems -------------------------------- *)
\* a force of a system: its class name and its parameters
Force(name, particles, exceptions, terms, params) ==
  [name |-> name, particles |-> particles, exceptions |-> exceptions,
   terms |-> terms, params |-> params]

Particle(charge, sigma, epsilon) ==
  [charge |-> charge, sigma |-> sigma, epsilon |-> epsilon]
Exception(p1, p2, chargeProd, sigma, epsilon) ==
  [p1 |-> p1, p2 |-> p2, chargeProd |-> chargeProd, sigma |-> sigma,
   epsilon |-> epsilon]
Torsion(p1, p2, p3, p4, periodicity, phase, K) ==
  [p1 |-> p1, p2 |-> p2, p3 |-> p3, p4 |-> p4, periodicity |-> periodicity,
   phase |-> phase, K |-> K]

BondForce == Force("HarmonicBondForce", <<>>, <<>>, <<<<0, 1, 10, 300>>>>, <<>>)
AngleForce ==
  Force("HarmonicAngleForce", <<>>, <<>>, <<<<0, 1, 2, 109, 50>>>>, <<>>)
TorsionForce ==
  Force("PeriodicTorsionForce", <<>>, <<>>,
        <<Torsion(0, 1, 2, 3, 3, 0, 2), Torsion(0, 1, 2, 3, 2, 180, 5)>>, <<>>)
NonbondedForce ==
  Force("NonbondedForce", <<Particle(1, 3, 2), Particle(-1, 4, 1)>>,
        <<Exception(0, 3, -1, 3, 1)>>, <<>>, <<>>)

\* the ffxml files a caller names; the Engine builds one force per generator
\* of the files, in the files' order
ForcefieldArgs ==
  {Some(<<"amber/protein.ff14SB.xml">>), Some(<<"nonbonded_first.xml">>)}

\* what ForceField.createSystem hands back for a force field built from
\* these files, when it does not raise
EngineSystem(files) ==
  IF files = <<"nonbonded_first.xml">>
  THEN [forces |-> <<NonbondedForce, BondForce, AngleForce, TorsionForce>>]
  ELSE [forces |-> <<BondForce, AngleForce, TorsionForce, NonbondedForce>>]

\* the barostat a caller configures, and the barostats created from it
Barostat(pressure, temperature, frequency, seed, fresh) ==
  [pressure |-> pressure, temperature |-> temperature,
   frequency |-> frequency, seed |-> seed, fresh |-> fresh]
ConfiguredBarostat == Barostat(1, 298, 25, 0, FALSE)
BarostatArgs == {None, Some(ConfiguredBarostat)}

\* the hooks a caller passes as postprocess_system
HookArgs == {None, Some("addCMMotionRemover")}
CallHook(hook, system) ==
  [forces |-> Append(system.forces,
                     Force("CMMotionRemover", <<>>, <<>>, <<>>, <<>>))]

Step(name, arg) == [step |-> name, arg |-> arg]

(* --------------------------- _modify_forces ---------------------------- *)
ModifyParticle(me, p) ==
  Particle(IF ~me.particle_charges THEN p.charge * 0 ELSE p.charge,
           p.sigma,
           IF ~me.particle_epsilons THEN p.epsilon * 0 ELSE p.epsilon)

\* ModifyException as it would be if it read the particle flags
ModifyExceptionParticleFlags(me, e) ==
  Exception(e.p1, e.p2,
            IF ~me.particle_charges THEN e.chargeProd * 0 ELSE e.chargeProd,
            e.sigma,
            IF ~me.particle_epsilons THEN e.epsilon * 0 ELSE e.epsilon)

ModifyException(me, e) ==
  Exception(e.p1, e.p2,
            IF ~me.exception_charges THEN e.chargeProd * 0 ELSE e.chargeProd,
            e.sigma,
            IF ~me.exception_epsilons THEN e.epsilon * 0 ELSE e.epsilon)

\* ModifyTorsion as it would be if the torsions flag were never read
ModifyTorsionKeepsK(me, t) ==
  Torsion(t.p1, t.p2, t.p3, t.p4, t.periodicity, t.phase, t.K)

ModifyTorsion(me, t) ==
  Torsion(t.p1, t.p2, t.p3, t.p4, t.periodicity, t.phase,
          IF ~me.torsions THEN t.K * 0 ELSE t.K)

\* the body of the loop over system.getForces() for one force
ModifyForce(me, force) ==
  IF force.name = "NonbondedForce"
  THEN [force EXCEPT
          !.particles = [i \in 1..Len(force.particles) |->
                           ModifyParticle(me, force.particles[i])],
          !.exceptions = [i \in 1..Len(force.exceptions) |->
                            ModifyException(me, force.exceptions[i])]]
  ELSE IF force.name = "PeriodicTorsionForce"
  THEN [force EXCEPT
          !.terms = [i \in 1..Len(force.terms) |->
                       ModifyTorsion(me, force.terms[i])]]
  ELSE force

ModifyStep(force, index) ==
  IF force.name = "NonbondedForce" THEN <<Step("NonbondedForce", index)>>
  ELSE IF force.name = "PeriodicTorsionForce"
  THEN <<Step("PeriodicTorsionForce", index)>>
  ELSE <<>>

\* the barostat block: a new MonteCarloBarostat with the configured
\* pressure, temperature and frequency and the drawn seed
AddBarostat(me, system, seed) ==
  IF ~IsNone(me.barostat)
  THEN LET pressure == Val(me.barostat).pressure
           temperature == Val(me.barostat).temperature
           frequency == Val(me.barostat).frequency
           barostat == Barostat(pressure, temperature, frequency, seed, TRUE)
       IN [system |->
             [forces |-> Append(system.forces,
                Force("MonteCarloBarostat", <<>>, <<>>, <<>>, <<barostat>>))],
           log |-> <<Step("addForce", Len(system.forces) + 1)>>]
  ELSE [system |-> system, log |-> <<>>]

\* `for force in system.getForces()` from force number index on; acc carries
\* the system and the steps taken so far
RECURSIVE ModifyFrom(_, _, _)
ModifyFrom(me, acc, index) ==
  IF index > Len(acc.system.forces) THEN acc
  ELSE ModifyFrom(me,
         [system |-> [forces |-> [acc.system.forces EXCEPT
                         ![index] = ModifyForce(me, acc.system.forces[index])]],
          log |-> acc.log \o ModifyStep(acc.system.forces[index], index)],
         index + 1)

\* _modify_forces as it would be if the barostat were attached after the loop
ModifyForcesBarostatLast(me, system, seed) ==
  LET looped == ModifyFrom(me, [system |-> system, log |-> <<>>], 1)
      added == AddBarostat(me, looped.system, seed)
  IN [system |-> added.system, log |-> looped.log \o added.log]

_modify_forces(me, system, seed) ==
  ModifyFrom(me, AddBarostat(me, system, seed), 1)

(* ------------------------------ __init__ ------------------------------- *)
\* the generator before __init__ has run
Blank ==
  [barostat |-> None, particle_charges |-> TRUE, exception_charges |-> TRUE,
   particle_epsilons |-> TRUE, exception_epsilons |-> TRUE, torsions |-> TRUE,
   particle_exceptions |-> None, postprocess_system |-> None,
   forcefield |-> [files |-> <<>>, generators |-> <<>>],
   forcefield_kwargs |-> {}, template_generator |-> None]

Init ==
  /\ pc = "new"
  /\ self = Blank
  /\ op = [name |-> "none", args |-> <<>>]
  /\ result = None
  /\ returns = <<>>
  /\ raised = NoException
  /\ log = <<>>
  /\ assigns = 0
  /\ dummy = [kind |-> "none", value |-> <<[atoms |-> 0, bonds |-> {}], <<>>>>]

\* template_generator_cls(forcefield=..., cache=...) when it does not raise
\* (what the instance keeps of its arguments is its own business)
TemplateGenerator(cls, forcefield, cache) ==
  [cls |-> cls, molecules |-> {}]

\* Probe as it would be if the loop stopped at the first class that loads
RECURSIVE ProbeFirstWins(_, _, _, _, _)
ProbeFirstWins(acc, cls, accepts, forcefield, cache) ==
  IF cls > Len(Subclasses) \/ ~IsNone(acc.template_generator) THEN acc
  ELSE ProbeFirstWins(
         IF cls \in accepts
         THEN [template_generator |-> Some([cls |-> cls, molecules |-> {}]),
               log |-> Append(acc.log, Step("construct", cls))]
         ELSE [template_generator |-> acc.template_generator,
               log |-> Append(acc.log, Step("ValueError", cls))],
         cls + 1, accepts, forcefield, cache)

\* the loop over __subclasses__() from class number cls on: accepts is the
\* set of classes whose construction does not raise ValueError
RECURSIVE Probe(_, _, _, _, _)
Probe(acc, cls, accepts, forcefield, cache) ==
  IF cls > Len(Subclasses) THEN acc
  ELSE Probe(
         IF cls \in accepts
         THEN [template_generator |->
                 Some(TemplateGenerator(cls, forcefield, cache)),
               log |-> Append(acc.log, Step("construct", cls))]
         ELSE [template_generator |-> acc.template_generator,
               log |-> Append(acc.log, Step("ValueError", cls))],
         cls + 1, accepts, forcefield, cache)

\* NoGeneratorMessage as it would be if it listed only the first class
NoGeneratorMessageFirstOnly(forcefield) ==
  <<"No registered small molecule template generators could load force field",
    forcefield, "Available installed force fields are:",
    <<Subclasses[1].name, Subclasses[1].INSTALLED_FORCEFIELDS>>>>

\* the message of the ValueError raised when no class could load the id
NoGeneratorMessage(forcefield) ==
  <<"No registered small molecule template generators could load force field",
    forcefield, "Available installed force fields are:">>
  \o [c \in 1..Len(Subclasses) |->
        <<Subclasses[c].name, Subclasses[c].INSTALLED_FORCEFIELDS>>]

AddMoleculesError ==
  [type |-> "ValueError",
   msg |-> <<"You must have a small molecule residue template generator registered to add small molecules">>]

\* SystemGenerator.add_molecules on generator me: the generator afterwards
\* and the exception raised
add_molecules(me, molecules) ==
  IF IsNone(me.template_generator)
  THEN [self |-> me, raised |-> AddMoleculesError, log |-> <<>>]
  ELSE [self |-> [me EXCEPT !.template_generator =
                    Some([Val(me.template_generator) EXCEPT
                            !.molecules = @ \cup {molecules}])],
        raised |-> NoException,
        log |-> <<Step("add_molecules", Val(me.template_generator).cls)>>]

__init__(forcefields, small_molecule_forcefield, forcefield_kwargs, barostat, molecules, cache, postprocess_system, accepts) ==
  /\ pc = "new"
  /\ LET s0 == [Blank EXCEPT
                  !.barostat = barostat,
                  !.postprocess_system = postprocess_system,
                  !.forcefield =
                     [files |-> IF IsNone(forcefields) THEN <<>>
                                ELSE Val(forcefields),
                      generators |-> <<>>],
                  !.forcefield_kwargs =
                     IF IsNone(forcefield_kwargs) THEN {}
                     ELSE Val(forcefield_kwargs)]
         probe == IF ~IsNone(small_molecule_forcefield)
                  THEN Probe([template_generator |-> None, log |-> <<>>], 1,
                             accepts, Val(small_molecule_forcefield), cache)
                  ELSE [template_generator |-> None, log |-> <<>>]
         s1 == [s0 EXCEPT !.template_generator = probe.template_generator]
     IN IF ~IsNone(small_molecule_forcefield)
           /\ IsNone(probe.template_generator)
        THEN /\ self' = s1
             /\ raised' = [type |-> "ValueError",
                           msg |-> NoGeneratorMessage(
                                     Val(small_molecule_forcefield))]
             /\ log' = probe.log
             /\ pc' = "failed"
        ELSE LET s2 == IF IsNone(small_molecule_forcefield) THEN s1
                       ELSE [s1 EXCEPT !.forcefield.generators =
                               Append(@, Val(s1.template_generator).cls)]
                 reg == IF IsNone(small_molecule_forcefield) THEN <<>>
                        ELSE <<Step("registerTemplateGenerator",
                                    Val(s1.template_generator).cls)>>
                 added == add_molecules(s2, molecules)
             IN /\ self' = added.self
                /\ raised' = added.raised
                /\ log' = probe.log \o reg \o added.log
                /\ pc' = IF added.raised = NoException THEN "ready"
                         ELSE "failed"
  /\ op' = [name |-> "__init__",
            args |-> <<small_molecule_forcefield, accepts, molecules>>]
  /\ result' = None
  /\ UNCHANGED <<returns, assigns, dummy>>

KwargsArgs == {None, Some({"rigidWater"})}

\* SystemGenerator(...) with every argument the claims speak of varied, and
\* any set of classes able to load the identifier
Construct ==
  \E forcefields \in {None} \cup ForcefieldArgs,
     small_molecule_forcefield \in {None} \cup {Some(f) : f \in ForceFieldIds},
     forcefield_kwargs \in KwargsArgs, barostat \in BarostatArgs,
     molecules \in MoleculeArgs, postprocess_system \in HookArgs,
     accepts \in SUBSET (1..NumClasses) :
    __init__(forcefields, small_molecule_forcefield, forcefield_kwargs,
             barostat, molecules, None, postprocess_system, accepts)

\* the default identifier 'openff-1.0.0' and the class that loads it
DefaultForceField == "openff-1.0.0"
DefaultAccepts ==
  {c \in 1..NumClasses : DefaultForceField \in ClassForceFields[c]}

\* SystemGenerator(forcefields=..., forcefield_kwargs={'rigidWater': True},
\* barostat=..., molecules=..., postprocess_system=...) with the default
\* identifier
ConstructConfigured ==
  \E forcefields \in ForcefieldArgs, barostat \in BarostatArgs,
     molecules \in MoleculeArgs, postprocess_system \in HookArgs :
    __init__(forcefields, Some(DefaultForceField), Some({"rigidWater"}),
             barostat, molecules, None, postprocess_system, DefaultAccepts)

\* SystemGenerator(forcefields=['amber/protein.ff14SB.xml'],
\* forcefield_kwargs={'rigidWater': True}, barostat=...)
ConstructDefault ==
  \E barostat \in BarostatArgs :
    __init__(Some(<<"amber/protein.ff14SB.xml">>), Some(DefaultForceField),
             Some({"rigidWater"}), barostat, None, None, None, DefaultAccepts)

(* ------------------------ attribute assignments ------------------------ *)
FlagNames ==
  {"particle_charges", "exception_charges", "particle_epsilons",
   "exception_epsilons", "torsions"}

\* system_generator.<flag> = value
SetFlag ==
  /\ pc = "ready"
  /\ assigns < MaxAssign
  /\ \E name \in FlagNames, value \in BOOLEAN :
       /\ self' = [self EXCEPT ![name] = value]
       /\ op' = [name |-> "setattr", args |-> <<>>]
  /\ assigns' = assigns + 1
  /\ raised' = NoException
  /\ log' = <<>>
  /\ result' = None
  /\ UNCHANGED <<pc, returns, dummy>>

\* system_generator.particle_exceptions = value, the assignment the
\* docstring of __init__ shows: it creates a new attribute
SetParticleExceptions ==
  /\ pc = "ready"
  /\ assigns < MaxAssign
  /\ \E value \in BOOLEAN :
       /\ self' = [self EXCEPT !.particle_exceptions = Some(value)]
       /\ op' = [name |-> "setattr", args |-> <<>>]
  /\ assigns' = assigns + 1
  /\ raised' = NoException
  /\ log' = <<>>
  /\ result' = None
  /\ UNCHANGED <<pc, returns, dummy>>

\* system_generator.barostat = value
SetBarostat ==
  /\ pc = "ready"
  /\ assigns < MaxAssign
  /\ \E value \in BarostatArgs :
       /\ self' = [self EXCEPT !.barostat = value]
       /\ op' = [name |-> "setattr", args |-> <<>>]
  /\ assigns' = assigns + 1
  /\ raised' = NoException
  /\ log' = <<>>
  /\ result' = None
  /\ UNCHANGED <<pc, returns, dummy>>

\* system_generator.template_generator = None
ClearTemplateGenerator ==
  /\ pc = "ready"
  /\ assigns < MaxAssign
  /\ self' = [self EXCEPT !.template_generator = None]
  /\ op' = [name |-> "setattr", args |-> <<>>]
  /\ assigns' = assigns + 1
  /\ raised' = NoException
  /\ log' = <<>>
  /\ result' = None
  /\ UNCHANGED <<pc, returns, dummy>>

(* ---------------------------- add_molecules ---------------------------- *)
AddMolecules ==
  /\ pc = "ready"
  /\ \E molecules \in MoleculeArgs :
       LET added == add_molecules(self, molecules)
       IN /\ self' = added.self
          /\ raised' = added.raised
          /\ log' = added.log
          /\ op' = [name |-> "add_molecules", args |-> <<molecules>>]
  /\ result' = None
  /\ UNCHANGED <<pc, returns, assigns, dummy>>

(* ---------------------------- create_system ---------------------------- *)
EngineError == [type |-> "ValueError", msg |-> <<"No template found">>]

\* what one create_system call does: fails tells whether
\* forcefield.createSystem raises instead of returning a system, seed is
\* what np.random.randint returns
create_system(me, topology, molecules, fails, seed) ==
  LET forward == (~IsNone(me.template_generator)) /\ (~IsNone(molecules))
      me1 == IF forward THEN add_molecules(me, molecules).self ELSE me
      log1 == IF forward THEN add_molecules(me, molecules).log ELSE <<>>
      engine == EngineSystem(me1.forcefield.files)
  IN IF fails
     THEN [self |-> me1, raised |-> EngineError, result |-> None,
           log |-> Append(log1, Step("createSystem raised", 0))]
     ELSE LET modified == _modify_forces(me1, engine, seed)
              log2 == Append(log1, Step("createSystem", 0)) \o modified.log
          IN IF ~IsNone(me1.postprocess_system)
             THEN [self |-> me1, raised |-> NoException,
                   result |-> Some(CallHook(Val(me1.postprocess_system),
                                            modified.system)),
                   log |-> Append(log2, Step("postprocess_system",
                                             Len(modified.system.forces)))]
             ELSE [self |-> me1, raised |-> NoException,
                   result |-> Some(modified.system), log |-> log2]

CreateSystem ==
  /\ pc = "ready"
  /\ Len(returns) < MaxCalls
  /\ \E molecules \in MoleculeArgs,
        fails \in BOOLEAN,
        seed \in 0..(MAXINT - 1) :
       LET call == create_system(self, "topology", molecules, fails, seed)
       IN /\ self' = call.self
          /\ raised' = call.raised
          /\ log' = call.log
          /\ returns' = IF IsNone(call.result) THEN returns
                        ELSE Append(returns,
                               [system |-> Val(call.result),
                                engine |-> EngineSystem(self.forcefield.files)])
          /\ result' = call.result
          /\ op' = [name |-> "create_system",
                    args |-> <<molecules>>]
  /\ UNCHANGED <<pc, assigns, dummy>>

\* construction alone
InitNext == Construct

InitSpec == Init /\ [][InitNext]_vars

\* a configured generator: barostat, template generator, molecules, calls
Next ==
  \/ ConstructConfigured
  \/ SetBarostat
  \/ ClearTemplateGenerator
  \/ AddMolecules
  \/ CreateSystem

Spec == Init /\ [][Next]_vars

\* a default generator: flag assignments and calls
FlagNext ==
  \/ ConstructDefault
  \/ SetFlag
  \/ SetParticleExceptions
  \/ CreateSystem

FlagSpec == Init /\ [][FlagNext]_vars

(* ------------------ DummySystemGenerator.create_system ----------------- *)
\* topologies: atoms 0 .. atoms-1 and bonds between two different atoms
Pairs(n) == {<<a, b>> \in (0..(n - 1)) \X (0..(n - 1)) : a < b}
Topologies ==
  UNION {{[atoms |-> n, bonds |-> bs] : bs \in SUBSET Pairs(n)} :
           n \in 0..MaxAtoms}

\* "Build a list of which atom indices are bonded to each atom": entry i+1
\* of the list is the set for atom i
BondedToAtom(topology) ==
  [i \in 1..topology.atoms |->
     {b[2] : b \in {x \in topology.bonds : x[1] = i - 1}}
     \cup {b[1] : b \in {x \in topology.bonds : x[2] = i - 1}}]

\* what topology.atoms can be: a method and an iterable at once, an iterable
\* that cannot be called, or a method that has to be called
AtomsKinds == {"both", "iterable", "method"}

\* the call on one topology.  missing: whether unit and openmm fail to
\* resolve in the module, which itself imports only logging.  atomsKind: what topology.atoms
\* is, "method" (it has to be called), "iterable" (it cannot be called) or
\* "both"; the code iterates it uncalled and later calls it.
Dummy_create_system(topology, missing, atomsKind) ==
  IF missing
  THEN [raised |-> [type |-> "NameError", msg |-> <<"name 'unit' is not defined">>],
        result |-> [kind |-> "none", value |-> <<>>]]
  ELSE IF atomsKind = "method"
  THEN [raised |-> [type |-> "TypeError", msg |-> <<"'method' object is not iterable">>],
        result |-> [kind |-> "none", value |-> <<>>]]
  ELSE IF atomsKind = "iterable"
  THEN [raised |-> [type |-> "TypeError", msg |-> <<"object is not callable">>],
        result |-> [kind |-> "none", value |-> <<>>]]
  ELSE [raised |-> NoException,
        result |-> [kind |-> "list", value |-> BondedToAtom(topology)]]

\* the call reads nothing of the generator and leaves nothing behind, so one
\* call per behaviour shows all of them
DummyCreateSystem ==
  /\ pc = "ready"
  /\ op.name # "DummySystemGenerator.create_system"
  /\ \E topology \in Topologies, missing \in BOOLEAN,
        atomsKind \in AtomsKinds :
       LET call == Dummy_create_system(topology, missing, atomsKind)
       IN /\ raised' = call.raised
          /\ dummy' = [call.result EXCEPT !.value = <<topology, @>>]
          /\ op' = [name |-> "DummySystemGenerator.create_system",
                    args |-> <<missing, atomsKind>>]
  /\ log' = <<>>
  /\ result' = None
  /\ UNCHANGED <<pc, self, returns, assigns>>

DummyNext == ConstructDefault \/ DummyCreateSystem

DummySpec == Init /\ [][DummyNext]_vars

(* ------------------------------- claims -------------------------------- *)
InitCalled == op.name = "__init__"
RequestedId == op.args[1]
Accepting == op.args[2]
InitMolecules == op.args[3]

\* C1: construction with an identifier that every known template generator
\* class rejects raises a ValueError whose message names the identifier and
\* lists every class with its INSTALLED_FORCEFIELDS; no template generator is
\* installed and none is registered with the Engine.
C1_UnsupportedIdentifierFails ==
  (InitCalled /\ ~IsNone(RequestedId) /\ Accepting = {}) =>
    /\ pc = "failed"
    /\ raised.type = "ValueError"
    /\ Len(raised.msg) >= 3
    /\ raised.msg[2] = Val(RequestedId)
    /\ \A c \in 1..NumClasses :
         \E i \in 4..Len(raised.msg) :
           raised.msg[i] = <<ClassNames[c], ClassForceFields[c]>>
    /\ IsNone(self.template_generator)
    /\ self.forcefield.generators = <<>>

C1_Witness ==
  /\ InitCalled /\ ~IsNone(RequestedId) /\ Accepting = {}
  /\ pc = "failed"
  /\ Len(log) = NumClasses

Last(accepts) == CHOOSE c \in accepts : \A d \in accepts : d <= c

\* C2: every candidate class is probed, in order; a candidate that raises
\* ValueError is passed over; the last candidate that could be constructed is
\* the one installed, also when a later candidate fails, and exactly its
\* generator is registered with the Engine.
C2_LastAcceptingCandidateInstalled ==
  (InitCalled /\ ~IsNone(RequestedId) /\ Accepting # {}) =>
    /\ pc = "ready"
    /\ Len(log) >= NumClasses
    /\ \A c \in 1..NumClasses :
         log[c] = Step(IF c \in Accepting THEN "construct" ELSE "ValueError", c)
    /\ ~IsNone(self.template_generator)
    /\ Val(self.template_generator).cls = Last(Accepting)
    /\ self.forcefield.generators = <<Last(Accepting)>>

\* a candidate that loads is followed by one that fails
C2_Witness ==
  /\ InitCalled /\ ~IsNone(RequestedId)
  /\ 1 \in Accepting /\ 2 \notin Accepting
  /\ pc = "ready"
  /\ Val(self.template_generator).cls < NumClasses

\* C3: construction with no identifier and no molecules skips the probing and
\* yields a generator with no template generator installed and no generator
\* registered with the Engine.
C3_NoIdentifierConstructs ==
  (InitCalled /\ IsNone(RequestedId) /\ IsNone(InitMolecules)) =>
    /\ pc = "ready"
    /\ raised = NoException
    /\ log = <<>>
    /\ IsNone(self.template_generator)
    /\ self.forcefield.generators = <<>>

CreateCalled == op.name = "create_system"
CreateMolecules == op.args[1]
EngineAsked ==
  \E i \in 1..Len(log) : log[i].step \in {"createSystem", "createSystem raised"}

\* C4: with no template generator installed, add_molecules raises, and
\* create_system called with molecules raises before the Engine is asked to
\* build a system, so that no system is returned.
C4_MoleculesWithoutGeneratorFail ==
  /\ (op.name = "add_molecules" /\ IsNone(self.template_generator)) =>
       raised.type = "ValueError"
  /\ (CreateCalled /\ IsNone(self.template_generator)
        /\ ~IsNone(CreateMolecules)) =>
       /\ raised # NoException
       /\ ~EngineAsked
       /\ IsNone(result)

Returned == Val(result)
SystemReturned == CreateCalled /\ ~IsNone(result)
\* the system the Engine built in the call that returned last
EngineBuilt == returns[Len(returns)].engine
ForcesNamed(system, name) ==
  {i \in 1..Len(system.forces) : system.forces[i].name = name}

TorsionsZero(system) ==
  \A i \in ForcesNamed(system, "PeriodicTorsionForce") :
    \A t \in 1..Len(system.forces[i].terms) : system.forces[i].terms[t].K = 0

\* the torsion terms of system are those of engine but for K, and its bond
\* and angle forces are those of engine
TorsionsOtherwiseKept(system, engine) ==
  /\ Len(system.forces) >= Len(engine.forces)
  /\ \A i \in 1..Len(system.forces) :
       system.forces[i].name \in
           {"PeriodicTorsionForce", "HarmonicBondForce", "HarmonicAngleForce"}
         => i <= Len(engine.forces)
  /\ \A i \in 1..Len(engine.forces) :
       LET f == system.forces[i]
           e == engine.forces[i]
       IN /\ f.name = e.name
          /\ e.name \in {"HarmonicBondForce", "HarmonicAngleForce"} => f = e
          /\ e.name = "PeriodicTorsionForce" =>
               /\ Len(f.terms) = Len(e.terms)
               /\ \A t \in 1..Len(e.terms) :
                    [f.terms[t] EXCEPT !.K = 0] = [e.terms[t] EXCEPT !.K = 0]

\* C5: a system returned by create_system while the torsions flag is False
\* has K = 0 in every term of every PeriodicTorsionForce, the particles,
\* periodicity and phase of those terms as the Engine produced them, and the
\* bond and angle terms as the Engine produced them; so for each of two
\* successive calls.
C5_TorsionsDisabledZeroesBarriers ==
  (SystemReturned /\ ~self.torsions) =>
    /\ TorsionsZero(Returned)
    /\ TorsionsOtherwiseKept(Returned, EngineBuilt)

\* the second of two calls, both made with the flag off, on an Engine system
\* whose barriers are not zero
C5_Witness ==
  /\ SystemReturned /\ ~self.torsions
  /\ Len(returns) = 2
  /\ TorsionsZero(returns[1].system)
  /\ TorsionsZero(Returned)
  /\ ForcesNamed(Returned, "PeriodicTorsionForce") # {}
  /\ ~TorsionsZero(EngineBuilt)

Barostats(system) ==
  {system.forces[i].params[1] : i \in ForcesNamed(system, "MonteCarloBarostat")}

\* C6: with a barostat configured, a returned system holds one newly created
\* barostat with the configured pressure, temperature and frequency, never
\* the configured object, and its seed differs from the seed of the barostat
\* of every system returned before.
C6_BarostatSeedsDiffer ==
  (SystemReturned /\ ~IsNone(self.barostat)) =>
    /\ Cardinality(ForcesNamed(Returned, "MonteCarloBarostat")) = 1
    /\ \A b \in Barostats(Returned) :
         /\ b.fresh
         /\ b.pressure = Val(self.barostat).pressure
         /\ b.temperature = Val(self.barostat).temperature
         /\ b.frequency = Val(self.barostat).frequency
         /\ \A j \in 1..(Len(returns) - 1) :
              \A a \in Barostats(returns[j].system) : a.seed # b.seed

\* system is engine with exactly the term classes zeroed whose flag is off in
\* generator me, followed by whatever was attached afterwards
Reflects(system, engine, me) ==
  /\ Len(system.forces) >= Len(engine.forces)
  /\ \A i \in 1..Len(engine.forces) :
       LET f == system.forces[i]
           e == engine.forces[i]
       IN /\ f.name = e.name
          /\ Len(f.particles) = Len(e.particles)
          /\ Len(f.exceptions) = Len(e.exceptions)
          /\ Len(f.terms) = Len(e.terms)
          /\ e.name \notin {"NonbondedForce", "PeriodicTorsionForce"} => f = e
          /\ e.name = "NonbondedForce" =>
               /\ \A k \in 1..Len(e.particles) :
                    /\ f.particles[k].charge =
                         IF me.particle_charges THEN e.particles[k].charge
                         ELSE 0
                    /\ f.particles[k].epsilon =
                         IF me.particle_epsilons THEN e.particles[k].epsilon
                         ELSE 0
                    /\ f.particles[k].sigma = e.particles[k].sigma
               /\ \A k \in 1..Len(e.exceptions) :
                    /\ f.exceptions[k].chargeProd =
                         IF me.exception_charges
                         THEN e.exceptions[k].chargeProd ELSE 0
                    /\ f.exceptions[k].epsilon =
                         IF me.exception_epsilons
                         THEN e.exceptions[k].epsilon ELSE 0
                    /\ f.exceptions[k].sigma = e.exceptions[k].sigma
                    /\ f.exceptions[k].p1 = e.exceptions[k].p1
                    /\ f.exceptions[k].p2 = e.exceptions[k].p2
          /\ e.name = "PeriodicTorsionForce" =>
               \A k \in 1..Len(e.terms) :
                 f.terms[k] =
                   [e.terms[k] EXCEPT !.K = IF me.torsions THEN @ ELSE 0]

Configuration(me) ==
  <<me.particle_charges, me.exception_charges, me.particle_epsilons,
    me.exception_epsilons, me.torsions, me.barostat, me.forcefield_kwargs>>

\* C7: in every step, the systems returned so far stay as they were returned;
\* a create_system call leaves the five flags, the barostat specification and
\* forcefield_kwargs as they were, and the system it returns is the Engine's
\* with exactly the term classes zeroed whose flag was off when it ran.
C7_FlagsReadAtCallTime ==
  [][ /\ Len(returns') >= Len(returns)
      /\ \A i \in 1..Len(returns) : returns'[i] = returns[i]
      /\ op'.name = "create_system" =>
           /\ Configuration(self') = Configuration(self)
           /\ ~IsNone(result') =>
                /\ Len(returns') = Len(returns) + 1
                /\ returns'[Len(returns')].system = Val(result')
                /\ Reflects(Val(result'), returns'[Len(returns')].engine, self)
    ]_vars

\* a system returned with zeroed barriers is still so after the flag was
\* switched on again and a second system with the Engine's barriers returned
C7_Witness ==
  /\ SystemReturned
  /\ Len(returns) = 2
  /\ self.torsions
  /\ TorsionsZero(returns[1].system)
  /\ ~TorsionsZero(returns[2].system)

ParticlesZero(system, field) ==
  \A i \in ForcesNamed(system, "NonbondedForce") :
    \A k \in 1..Len(system.forces[i].particles) :
      system.forces[i].particles[k][field] = 0
ExceptionsZero(system, field) ==
  \A i \in ForcesNamed(system, "NonbondedForce") :
    \A k \in 1..Len(system.forces[i].exceptions) :
      system.forces[i].exceptions[k][field] = 0

\* C8: a system created after one of the attributes the docstring names was
\* set to False has that class of terms zeroed: particle_charges the particle
\* charges, exception_charges the exception charge products,
\* particle_epsilons the particle epsilons, particle_exceptions the
\* exception epsilons.
C8_DocumentedAttributesZeroTerms ==
  SystemReturned =>
    /\ ~self.particle_charges => ParticlesZero(Returned, "charge")
    /\ ~self.exception_charges => ExceptionsZero(Returned, "chargeProd")
    /\ ~self.particle_epsilons => ParticlesZero(Returned, "epsilon")
    /\ self.particle_exceptions = Some(FALSE) =>
         ExceptionsZero(Returned, "epsilon")

DummyCalled == op.name = "DummySystemGenerator.create_system"

\* C9: DummySystemGenerator.create_system returns an assembled system for
\* every topology, with one particle per atom and one bond term per bond,
\* never the adjacency list or another intermediate structure.
C9_DummyReturnsSystem ==
  DummyCalled =>
    /\ raised = NoException
    /\ dummy.kind = "System"
    /\ dummy.value[2].particles = dummy.value[1].atoms
    /\ Cardinality(dummy.value[2].bonds) = Cardinality(dummy.value[1].bonds)

Forwarded == (~IsNone(self.template_generator)) /\ (~IsNone(CreateMolecules))
ForwardSteps ==
  IF Forwarded
  THEN <<Step("add_molecules", Val(self.template_generator).cls)>> ELSE <<>>
BarostatSteps(engine) ==
  IF ~IsNone(self.barostat)
  THEN <<Step("addForce", Len(engine.forces) + 1)>> ELSE <<>>
HookSteps(engine) ==
  IF ~IsNone(self.postprocess_system)
  THEN <<Step("postprocess_system",
              Len(engine.forces) + Len(BarostatSteps(engine)))>>
  ELSE <<>>
IsNonbondedStep(st) == st.step = "NonbondedForce"
IsTorsionStep(st) == st.step = "PeriodicTorsionForce"
IsZeroing(st) == IsNonbondedStep(st) \/ IsTorsionStep(st)
ForceSteps(engine) ==
  [i \in 1..Len(engine.forces) |-> Step(engine.forces[i].name, i)]
EngineOfCall == EngineSystem(self.forcefield.files)

\* what the call returned is the Engine's system, post-processed, and then
\* whatever the hook made of it
ReturnedPostProcessed(engine) ==
  /\ Reflects(Returned, engine, self)
  /\ Cardinality(ForcesNamed(Returned, "MonteCarloBarostat")) =
       Len(BarostatSteps(engine))
  /\ \A i \in ForcesNamed(Returned, "MonteCarloBarostat") :
       i = Len(engine.forces) + 1
  /\ IF IsNone(self.postprocess_system)
     THEN Len(Returned.forces) = Len(engine.forces) + Len(BarostatSteps(engine))
     ELSE Returned =
            CallHook(Val(self.postprocess_system),
                     [forces |-> SubSeq(Returned.forces, 1,
                                        Len(Returned.forces) - 1)])

\* C10 as claimed: the steps of a call are, in this order, molecules
\* forwarded (if any), Engine createSystem, barostat attached (if
\* configured), the zeroing of the nonbonded terms, the zeroing of the
\* periodic torsions, the hook; when createSystem fails nothing follows it.
C10_ClaimedOrder ==
  CreateCalled =>
    IF raised # NoException
    THEN /\ log = ForwardSteps \o <<Step("createSystem raised", 0)>>
         /\ IsNone(result)
    ELSE /\ log = ForwardSteps \o <<Step("createSystem", 0)>>
                  \o BarostatSteps(EngineOfCall)
                  \o SelectSeq(ForceSteps(EngineOfCall), IsNonbondedStep)
                  \o SelectSeq(ForceSteps(EngineOfCall), IsTorsionStep)
                  \o HookSteps(EngineOfCall)
         /\ ~IsNone(result)
         /\ ReturnedPostProcessed(EngineOfCall)

\* C10 (amended): the steps of a call are, in this order, molecules forwarded
\* (if a generator is installed and molecules are given), Engine
\* createSystem, barostat attached (if configured), one pass over the forces
\* in the order the system holds them that zeroes the terms of each
\* NonbondedForce and each PeriodicTorsionForce as it comes to it, the hook
\* (if configured) called once with the post-processed system, whose return
\* value is returned; when createSystem fails its exception reaches the
\* caller and neither the pass nor the hook runs.
C10_OrderOfSteps ==
  CreateCalled =>
    IF raised # NoException
    THEN /\ raised = EngineError
         /\ log = ForwardSteps \o <<Step("createSystem raised", 0)>>
         /\ IsNone(result)
    ELSE /\ log = ForwardSteps \o <<Step("createSystem", 0)>>
                  \o BarostatSteps(EngineOfCall)
                  \o SelectSeq(ForceSteps(EngineOfCall), IsZeroing)
                  \o HookSteps(EngineOfCall)
         /\ ~IsNone(result)
         /\ ReturnedPostProcessed(EngineOfCall)

\* a call that forwards molecules, attaches a barostat, runs the hook, and
\* comes to the torsion force before the nonbonded force
C10_Witness ==
  /\ SystemReturned
  /\ Forwarded
  /\ ~IsNone(self.barostat)
  /\ ~IsNone(self.postprocess_system)
  /\ \E i, j \in 1..Len(log) :
       /\ i < j
       /\ log[i].step = "PeriodicTorsionForce"
       /\ log[j].step = "NonbondedForce"

\* atoms a and b of topology are joined by a bond
Bonded(topology, a, b) ==
  <<a, b>> \in topology.bonds \/ <<b, a>> \in topology.bonds
AtomsOf(topology) == 0..(topology.atoms - 1)
\* tuple x comes before tuple y of the same length
LexLess(x, y) ==
  \E i \in 1..Len(x) : x[i] < y[i] /\ \A j \in 1..(i - 1) : x[j] = y[j]
\* strictly ascending: in order and no entry twice
Ascending(s) == \A i \in 1..(Len(s) - 1) : LexLess(s[i], s[i + 1])
Entries(s) == {s[i] : i \in 1..Len(s)}
DummyTopology == dummy.value[1]
DummyReturned == dummy.value[2]

\* the triples (a, b, c) with a < c and b bonded to both a and c
ClaimedAngles(topology) ==
  {t \in AtomsOf(topology) \X AtomsOf(topology) \X AtomsOf(topology) :
     /\ t[1] < t[3]
     /\ Bonded(topology, t[1], t[2])
     /\ Bonded(topology, t[2], t[3])}

\* C11: for every bond graph the call yields the angles of the graph: exactly
\* the triples (a, b, c) with a < c and b bonded to both a and c, each once
\* and in ascending order (a chain 0-1-2-3 gives (0,1,2) and (1,2,3), a
\* 3-ring three angles, a graph without bonds none).
C11_AnglesEnumerated ==
  DummyCalled =>
    /\ raised = NoException
    /\ dummy.kind = "System"
    /\ Entries(DummyReturned.angles) = ClaimedAngles(DummyTopology)
    /\ Ascending(DummyReturned.angles)

\* the quadruples (a, b, c, d) of four different atoms with a-b, b-c and c-d
\* bonded and a < d
ClaimedPropers(topology) ==
  {q \in AtomsOf(topology) \X AtomsOf(topology)
         \X AtomsOf(topology) \X AtomsOf(topology) :
     /\ Cardinality({q[1], q[2], q[3], q[4]}) = 4
     /\ q[1] < q[4]
     /\ Bonded(topology, q[1], q[2])
     /\ Bonded(topology, q[2], q[3])
     /\ Bonded(topology, q[3], q[4])}

\* C12: for every bond graph the call yields the proper torsions of the
\* graph: exactly the quadruples (a, b, c, d) of four different atoms with
\* a-b, b-c and c-d bonded and a < d, each once (a chain 0-1-2-3 gives
\* (0,1,2,3) alone, a 3-ring none).
C12_PropersEnumerated ==
  DummyCalled =>
    /\ raised = NoException
    /\ dummy.kind = "System"
    /\ Entries(DummyReturned.propers) = ClaimedPropers(DummyTopology)
    /\ Len(DummyReturned.propers) = Cardinality(ClaimedPropers(DummyTopology))
====
